---- MODULE Spec2Model ----
(***************************************************************************)
(* Signaling server of live_stream_server (src/src/app/index.ts).          *)
(*                                                                         *)
(* The server keeps two process-wide maps, `transports` and `producers`,   *)
(* and registers five handlers per socket.  Handlers run on a single       *)
(* event loop: the code between two `await`s is one atomic step, and an    *)
(* `await` of a media-engine call is a suspension point at which any other *)
(* handler may run.  The media engine (mediasoup) is the environment: its  *)
(* calls resolve or reject at any later time, and it reports DTLS state    *)
(* changes and the death of its worker process on its own.                 *)
(***************************************************************************)
EXTENDS Integers, Sequences, FiniteSets, Bags, TLC

\* ---------------------------------------------------------------- bounds
NumConns      == 2   \* sockets that ever connect
MaxTransports == 2   \* transports the engine ever creates
MaxProducers  == 2   \* producers the engine ever creates
MaxPending    == 2   \* engine calls in flight at once
MaxEvents     == 5   \* socket events (connections, requests) that ever arrive

Conns        == 1..NumConns
TransportIds == 1..MaxTransports      \* ids the engine issues, in order
ProducerIds  == 1..MaxProducers
UnknownId    == 0                     \* an id the engine never issues
RequestIds   == TransportIds \cup {UnknownId}   \* transportId a client may send
DtlsStates   == {"failed", "closed"}  \* dtlsState values delivered to line 108

VARIABLES
    conn,          \* socket state: "new" (not yet connected), "open", "closed"
    transports,    \* the `transports` Map: its keys in insertion order
    producers,     \* the `producers` Map: its keys in insertion order
    nextT,         \* next transport id the engine will issue
    nextP,         \* next producer id the engine will issue
    tClosed,       \* transport.closed of each transport object
    tOwner,        \* socket whose handler created the transport (0: none)
    tConnected,    \* a connectTransport on the transport has succeeded
    tCloses,       \* times transport.close() took effect (emitted '@close')
    pClosed,       \* producer.closed of each producer object
    pTransportId,  \* producer.transportId (line 195), 0 before creation
    pOwner,        \* socket whose produce handler created the producer
    pCloses,       \* times a close of the producer took effect
    start,         \* position of start(): the call it awaits, "done" or "failed"
    worker,        \* the engine worker: "none" (not created), "alive", "died"
    router,        \* `router` has been assigned (line 82)
    listening,     \* server.listen has been called (line 221)
    exitTimer,     \* the timer of line 73 is armed
    exited,        \* process.exit has run
    acks,          \* acknowledgement callbacks invoked so far
    nReq,          \* requests received so far
    pending,       \* engine calls awaited by suspended handlers
    last           \* the handler step that ran last, and what it acknowledged

vars == <<conn, transports, producers, nextT, nextP, tClosed, tOwner,
          tConnected, tCloses, pClosed, pTransportId, pOwner, pCloses,
          start, worker, router, listening, exitTimer, exited,
          acks, nReq, pending, last>>

\* ------------------------------------------------------------- Map helpers
Keys(m)      == {m[i] : i \in DOMAIN m}
MapHas(m, k) == k \in Keys(m)
MapDelete(m, k) == SelectSeq(m, LAMBDA x : x # k)
MapSet(m, k) == IF MapHas(m, k) THEN m ELSE Append(m, k)

\* The part of the state that close operations and the disconnect loop touch.
Store ==
    [transports |-> transports, producers |-> producers,
     tClosed |-> tClosed, pClosed |-> pClosed,
     tCloses |-> tCloses, pCloses |-> pCloses, aborted |-> FALSE]

\* ------------------------------------------------------ engine close calls
\* Mutant: close takes effect again on a closed producer.
ProducerClose_NoGuard(st, p) ==
    [st EXCEPT !.pClosed[p] = TRUE, !.pCloses[p] = @ + 1]

\* producer.close(): returns at once on a closed producer.
ProducerClose(st, p) ==
    IF st.pClosed[p] THEN st
    ELSE [st EXCEPT !.pClosed[p] = TRUE, !.pCloses[p] = @ + 1]

\* The engine's set of producers of transport t: created on it, not closed.
ProducersOf(st, t) ==
    {p \in 1..(nextP - 1) : pTransportId[p] = t /\ ~st.pClosed[p]}

\* transport.close() runs producer.transportClosed() for each producer of the
\* transport: the producer becomes closed and its 'transportclose' listener
\* (lines 197-201) calls producer.close() and producers.delete(producer.id).
TransportCloseProducers(st, ps) ==
    LET closed == [st EXCEPT
                     !.pClosed = [p \in ProducerIds |-> @[p] \/ p \in ps],
                     !.pCloses = [p \in ProducerIds |->
                                     IF p \in ps THEN @[p] + 1 ELSE @[p]]]
        RECURSIVE Listeners(_, _)
        Listeners(s, rest) ==
            IF rest = {} THEN s
            ELSE LET p == CHOOSE x \in rest : TRUE
                 IN Listeners([ProducerClose(s, p) EXCEPT
                                  !.producers = MapDelete(@, p)],
                              rest \ {p})
    IN Listeners(closed, ps)

\* Mutant: the transport closes but stays in the map (no '@close' listener).
TransportClose_NoDelete(st, t) ==
    IF st.tClosed[t] THEN st
    ELSE LET s1 == [st EXCEPT !.tClosed[t] = TRUE, !.tCloses[t] = @ + 1]
         IN TransportCloseProducers(s1, ProducersOf(s1, t))

\* Mutant: the transport closes without closing its producers.
TransportClose_NoCascade(st, t) ==
    IF st.tClosed[t] THEN st
    ELSE [st EXCEPT !.tClosed[t] = TRUE, !.tCloses[t] = @ + 1,
                    !.transports = MapDelete(@, t)]

\* transport.close(): returns at once on a closed transport; otherwise marks
\* it closed, closes its producers, and emits '@close', whose listener
\* (lines 114-117) deletes the transport from the map.
TransportClose(st, t) ==
    IF st.tClosed[t] THEN st
    ELSE LET s1 == [st EXCEPT !.tClosed[t] = TRUE, !.tCloses[t] = @ + 1]
             s2 == TransportCloseProducers(s1, ProducersOf(s1, t))
         IN [s2 EXCEPT !.transports = MapDelete(@, t)]

\* ------------------------------------------------- disconnect (lines 138-152)
\* Inner loop, lines 143-148, over the entries of `producers`.  A close call
\* named in throwsP raises: the exception leaves the handler at that point.
RECURSIVE CloseProducersOf(_, _, _, _)
CloseProducersOf(st, transportId, entries, throwsP) ==
    IF entries = <<>> \/ st.aborted THEN st
    ELSE LET producerId == Head(entries)
         IN IF pTransportId[producerId] = transportId
            THEN IF producerId \in throwsP
                 THEN [st EXCEPT !.aborted = TRUE]
                 ELSE CloseProducersOf(
                        [ProducerClose(st, producerId) EXCEPT
                            !.producers = MapDelete(@, producerId)],
                        transportId, Tail(entries), throwsP)
            ELSE CloseProducersOf(st, transportId, Tail(entries), throwsP)

\* Outer loop, lines 142-151, over the entries of `transports`: every
\* transport in the map, whichever socket created it.
RECURSIVE Teardown(_, _, _, _)
Teardown(st, entries, throwsT, throwsP) ==
    IF entries = <<>> \/ st.aborted THEN st
    ELSE LET transportId == Head(entries)
             s1 == CloseProducersOf(st, transportId, st.producers, throwsP)
         IN IF s1.aborted THEN s1
            ELSE IF transportId \in throwsT
            THEN [s1 EXCEPT !.aborted = TRUE]
            ELSE Teardown(
                   [TransportClose(s1, transportId) EXCEPT
                       !.transports = MapDelete(@, transportId)],
                   Tail(entries), throwsT, throwsP)

\* The whole handler, from a given store.
RunDisconnect(st, throwsT, throwsP) ==
    Teardown(st, st.transports, throwsT, throwsP)

\* ------------------------------------------------------------------- Init
NoAck == "none"
\* A handler step: the event, the transportId it is about, the payload kind
\* it acknowledged and the resource id carried in that payload (0: none).
StepId(op, tid, ack, id) == [op |-> op, tid |-> tid, ack |-> ack, id |-> id]
Step(op, tid, ack) == StepId(op, tid, ack, 0)

Init ==
    /\ conn = [c \in Conns |-> "new"]
    /\ transports = <<>>
    /\ producers = <<>>
    /\ nextT = 1
    /\ nextP = 1
    /\ tClosed = [t \in TransportIds |-> FALSE]
    /\ tOwner = [t \in TransportIds |-> 0]
    /\ tConnected = [t \in TransportIds |-> FALSE]
    /\ tCloses = [t \in TransportIds |-> 0]
    /\ pClosed = [p \in ProducerIds |-> FALSE]
    /\ pTransportId = [p \in ProducerIds |-> 0]
    /\ pOwner = [p \in ProducerIds |-> 0]
    /\ pCloses = [p \in ProducerIds |-> 0]
    /\ pending = EmptyBag
    /\ nReq = 0
    /\ acks = 0
    /\ start = "createWorker"
    /\ worker = "none"
    /\ router = FALSE
    /\ listening = FALSE
    /\ exitTimer = FALSE
    /\ exited = FALSE
    /\ last = Step("start", 0, NoAck)

\* ------------------------------------------------------------ bookkeeping
\* `pending` is a bag: two handlers may await identical calls.
Pending  == BagToSet(pending)
CanAwait == BagCardinality(pending) < MaxPending
Call(op, c, tid) == [op |-> op, conn |-> c, tid |-> tid]
Await(op, c, tid) == pending (+) SetToBag({Call(op, c, tid)})
Resume(r) == pending (-) SetToBag({r})

\* Write a store back into the variables.
SetStore(st) ==
    /\ transports' = st.transports
    /\ producers' = st.producers
    /\ tClosed' = st.tClosed
    /\ pClosed' = st.pClosed
    /\ tCloses' = st.tCloses
    /\ pCloses' = st.pCloses

storeVars  == <<transports, producers, tClosed, pClosed, tCloses, pCloses>>
engineVars == <<nextT, nextP, tOwner, tConnected, pTransportId, pOwner>>

procVars   == <<start, worker, router, listening, exitTimer, exited>>

\* Handlers run as long as the process has not exited.
Running == ~exited

\* Sockets that have connected so far.
Arrived == Cardinality({c \in Conns : conn[c] # "new"})

\* One more socket event (a connection or a request) can still arrive.
CanReceive == nReq + Arrived < MaxEvents

\* A request event arrives on a socket: one more request received.
Receive == CanReceive /\ nReq' = nReq + 1

\* The acknowledgement callback of the request is invoked once.
Callback == acks' = acks + 1

\* ---------------------------------------------------------------- startup
\* start(), lines 217-226, awaits initializeMediaSoup (lines 80-84), which
\* awaits createWorker (lines 62-77) and then worker.createRouter.
sockVars == <<conn, nReq, acks, pending>>

\* Mutant: start() listens without waiting for the router.
CreateWorkerResolve_ListenEarly ==
    /\ Running
    /\ start = "createWorker"
    /\ worker' = "alive"
    /\ start' = "createRouter"
    /\ listening' = TRUE
    /\ last' = Step("createWorker.then", 0, NoAck)
    /\ UNCHANGED <<router, exitTimer, exited>>
    /\ UNCHANGED <<storeVars, engineVars, sockVars>>

\* mediasoup.createWorker resolves: lines 69-76 subscribe to 'died', line 82
\* calls worker.createRouter.
CreateWorkerResolve ==
    /\ Running
    /\ start = "createWorker"
    /\ worker' = "alive"
    /\ start' = "createRouter"
    /\ last' = Step("createWorker.then", 0, NoAck)
    /\ UNCHANGED <<router, listening, exitTimer, exited>>
    /\ UNCHANGED <<storeVars, engineVars, sockVars>>

\* mediasoup.createWorker rejects: start() rejects, line 221 is never reached.
CreateWorkerReject ==
    /\ Running
    /\ start = "createWorker"
    /\ start' = "failed"
    /\ last' = Step("createWorker.catch", 0, NoAck)
    /\ UNCHANGED <<worker, router, listening, exitTimer, exited>>
    /\ UNCHANGED <<storeVars, engineVars, sockVars>>

\* worker.createRouter resolves: line 82 assigns `router`, lines 220-223
\* start listening.
CreateRouterResolve ==
    /\ Running
    /\ start = "createRouter"
    /\ worker = "alive"
    /\ router' = TRUE
    /\ listening' = TRUE
    /\ start' = "done"
    /\ last' = Step("createRouter.then", 0, NoAck)
    /\ UNCHANGED <<worker, exitTimer, exited>>
    /\ UNCHANGED <<storeVars, engineVars, sockVars>>

\* worker.createRouter rejects (always so once the worker has died).
CreateRouterReject ==
    /\ Running
    /\ start = "createRouter"
    /\ start' = "failed"
    /\ last' = Step("createRouter.catch", 0, NoAck)
    /\ UNCHANGED <<worker, router, listening, exitTimer, exited>>
    /\ UNCHANGED <<storeVars, engineVars, sockVars>>

\* ------------------------------------------------------------ worker death
\* When the worker dies the engine closes the router and, through it, every
\* open transport: the transport becomes closed and its producers get
\* 'transportclose' (lines 197-201), but no '@close' is emitted, so the
\* listener of lines 114-117 does not run.
RECURSIVE RouterClosed(_, _)
RouterClosed(st, ts) ==
    IF ts = {} THEN st
    ELSE LET t  == CHOOSE x \in ts : TRUE
             s1 == [st EXCEPT !.tClosed[t] = TRUE]
         IN RouterClosed(TransportCloseProducers(s1, ProducersOf(s1, t)),
                         ts \ {t})

\* Mutant: the 'died' listener logs and arms no timer.
WorkerDied_NoTimer ==
    /\ Running
    /\ worker = "alive"
    /\ worker' = "died"
    /\ SetStore(RouterClosed(Store, {t \in 1..(nextT - 1) : ~tClosed[t]}))
    /\ last' = Step("died", 0, NoAck)
    /\ UNCHANGED <<start, router, listening, exitTimer, exited>>
    /\ UNCHANGED <<engineVars, sockVars>>

\* worker.on('died'), lines 71-74: the listener arms the exit timer.
WorkerDied ==
    /\ Running
    /\ worker = "alive"
    /\ worker' = "died"
    /\ SetStore(RouterClosed(Store, {t \in 1..(nextT - 1) : ~tClosed[t]}))
    /\ exitTimer' = TRUE
    /\ last' = Step("died", 0, NoAck)
    /\ UNCHANGED <<start, router, listening, exited>>
    /\ UNCHANGED <<engineVars, sockVars>>

\* The timer of line 73 fires: process.exit(1).  Nothing in the program
\* clears the timer.  The process memory (the maps, the engine objects, the
\* suspended handlers) ends with the process.
Exit ==
    /\ Running
    /\ exitTimer
    /\ exited' = TRUE
    /\ transports' = <<>>
    /\ producers' = <<>>
    /\ nextT' = 1
    /\ nextP' = 1
    /\ tClosed' = [t \in TransportIds |-> FALSE]
    /\ tOwner' = [t \in TransportIds |-> 0]
    /\ tConnected' = [t \in TransportIds |-> FALSE]
    /\ tCloses' = [t \in TransportIds |-> 0]
    /\ pClosed' = [p \in ProducerIds |-> FALSE]
    /\ pTransportId' = [p \in ProducerIds |-> 0]
    /\ pOwner' = [p \in ProducerIds |-> 0]
    /\ pCloses' = [p \in ProducerIds |-> 0]
    /\ pending' = EmptyBag
    /\ last' = Step("exit", 0, NoAck)
    /\ UNCHANGED <<start, worker, router, listening, exitTimer>>
    /\ UNCHANGED <<conn, nReq, acks>>

\* ---------------------------------------------------------------- actions
\* io.on('connection'), line 134.
Connection(c) ==
    /\ Running
    /\ listening
    /\ conn[c] = "new"
    /\ CanReceive
    /\ \A d \in Conns : d < c => conn[d] # "new"   \* sockets numbered as they arrive
    /\ conn' = [conn EXCEPT ![c] = "open"]
    /\ last' = Step("connection", 0, NoAck)
    /\ UNCHANGED <<storeVars, engineVars, pending>>
    /\ UNCHANGED <<nReq, procVars>>
    /\ UNCHANGED acks

\* socket.on('disconnect'), lines 138-152; no close call raises.
Disconnect(c) ==
    /\ Running
    /\ conn[c] = "open"
    /\ conn' = [conn EXCEPT ![c] = "closed"]
    /\ SetStore(RunDisconnect(Store, {}, {}))
    /\ last' = Step("disconnect", 0, NoAck)
    /\ UNCHANGED <<engineVars, pending>>
    /\ UNCHANGED <<nReq, procVars>>
    /\ UNCHANGED acks

\* socket.on('getRouterRtpCapabilities'), lines 155-157.
GetRouterRtpCapabilities(c) ==
    /\ Running
    /\ conn[c] = "open"
    /\ Receive
    /\ IF router
       THEN /\ last' = Step("getRouterRtpCapabilities", 0, "rtpCapabilities")
            /\ Callback
       ELSE \* reading a property of undefined throws before the callback
            /\ last' = Step("getRouterRtpCapabilities", 0, NoAck)
            /\ UNCHANGED acks
    /\ UNCHANGED <<conn, storeVars, engineVars, pending>>
    /\ UNCHANGED procVars

\* Mutant: the handler waits until no engine call is in flight.
CreateRequest_Blocking(c) ==
    /\ Running
    /\ conn[c] = "open"
    /\ Receive
    /\ router
    /\ pending = EmptyBag
    /\ pending' = Await("create", c, 0)
    /\ last' = Step("createWebRtcTransport", 0, NoAck)
    /\ UNCHANGED acks
    /\ UNCHANGED <<conn, storeVars, engineVars>>
    /\ UNCHANGED procVars

\* socket.on('createWebRtcTransport'), lines 160-162 and 96: the handler
\* calls router.createWebRtcTransport and suspends.
CreateRequest(c) ==
    /\ Running
    /\ conn[c] = "open"
    /\ Receive
    /\ IF router
       THEN /\ CanAwait
            /\ pending' = Await("create", c, 0)
            /\ last' = Step("createWebRtcTransport", 0, NoAck)
            /\ UNCHANGED acks
       ELSE \* line 96 throws on an undefined router; lines 164-167 catch it
            /\ last' = Step("createWebRtcTransport", 0, "error")
            /\ Callback
            /\ UNCHANGED pending
    /\ UNCHANGED <<conn, storeVars, engineVars>>
    /\ UNCHANGED procVars

\* Mutant: the params are acknowledged but the transport is not stored.
CreateResolve_NoStore(r) ==
    /\ Running
    /\ worker = "alive"
    /\ r.op = "create"
    /\ nextT <= MaxTransports
    /\ pending' = Resume(r)
    /\ nextT' = nextT + 1
    /\ tOwner' = [tOwner EXCEPT ![nextT] = r.conn]
    /\ last' = StepId("createWebRtcTransport.then", nextT, "params", nextT)
    /\ UNCHANGED <<conn, transports, producers, tClosed, pClosed, tCloses,
                   pCloses, nextP, tConnected, pTransportId, pOwner>>
    /\ UNCHANGED <<nReq, procVars>>
    /\ Callback

\* The engine call resolves: lines 108-131 store the transport, line 163
\* acknowledges its params.  Nothing here looks at the socket.
CreateResolve(r) ==
    /\ Running
    /\ worker = "alive"
    /\ r.op = "create"
    /\ nextT <= MaxTransports
    /\ pending' = Resume(r)
    /\ nextT' = nextT + 1
    /\ tOwner' = [tOwner EXCEPT ![nextT] = r.conn]
    /\ transports' = MapSet(transports, nextT)
    /\ last' = StepId("createWebRtcTransport.then", nextT, "params", nextT)
    /\ UNCHANGED <<conn, producers, tClosed, pClosed, tCloses, pCloses,
                   nextP, tConnected, pTransportId, pOwner>>
    /\ UNCHANGED <<nReq, procVars>>
    /\ Callback

\* The engine call rejects: lines 164-167.
CreateReject(r) ==
    /\ Running
    /\ r.op = "create"
    /\ pending' = Resume(r)
    /\ last' = Step("createWebRtcTransport.catch", 0, "error")
    /\ UNCHANGED <<conn, storeVars, engineVars>>
    /\ UNCHANGED <<nReq, procVars>>
    /\ Callback

\* Mutant: no lookup; the call goes to the engine whatever the id.
ConnectRequest_NoLookup(c, transportId) ==
    /\ Running
    /\ conn[c] = "open"
    /\ Receive
    /\ CanAwait
    /\ pending' = Await("connect", c, transportId)
    /\ last' = Step("connectTransport", transportId, NoAck)
    /\ UNCHANGED <<conn, storeVars, engineVars>>
    /\ UNCHANGED procVars
    /\ UNCHANGED acks

\* socket.on('connectTransport'), lines 171-178: look the id up; throw into
\* the catch of lines 180-183 when it is missing, else call
\* transport.connect and suspend.
ConnectRequest(c, transportId) ==
    /\ Running
    /\ conn[c] = "open"
    /\ Receive
    /\ IF ~MapHas(transports, transportId)
       THEN /\ last' = Step("connectTransport", transportId, "error")
            /\ Callback
            /\ UNCHANGED pending
       ELSE /\ CanAwait
            /\ UNCHANGED acks
            /\ pending' = Await("connect", c, transportId)
            /\ last' = Step("connectTransport", transportId, NoAck)
    /\ UNCHANGED <<conn, storeVars, engineVars>>
    /\ UNCHANGED procVars

\* transport.connect resolves: line 179.
ConnectResolve(r) ==
    /\ Running
    /\ worker = "alive"
    /\ r.op = "connect"
    /\ pending' = Resume(r)
    /\ tConnected' = [tConnected EXCEPT ![r.tid] = TRUE]
    /\ last' = Step("connectTransport.then", r.tid, "success")
    /\ UNCHANGED <<conn, storeVars, nextT, nextP, tOwner, pTransportId, pOwner>>
    /\ UNCHANGED <<nReq, procVars>>
    /\ Callback

\* Mutant: the rejection is not caught; nothing is acknowledged.
ConnectReject_Uncaught(r) ==
    /\ Running
    /\ r.op = "connect"
    /\ pending' = Resume(r)
    /\ last' = Step("connectTransport.catch", r.tid, NoAck)
    /\ UNCHANGED <<conn, storeVars, engineVars>>
    /\ UNCHANGED <<nReq, procVars>>
    /\ UNCHANGED acks

\* transport.connect rejects: lines 180-183.
ConnectReject(r) ==
    /\ Running
    /\ r.op = "connect"
    /\ pending' = Resume(r)
    /\ last' = Step("connectTransport.catch", r.tid, "error")
    /\ UNCHANGED <<conn, storeVars, engineVars>>
    /\ UNCHANGED <<nReq, procVars>>
    /\ Callback

\* Mutant: no lookup; the call goes to the engine whatever the id.
ProduceRequest_NoLookup(c, transportId) ==
    /\ Running
    /\ conn[c] = "open"
    /\ Receive
    /\ CanAwait
    /\ pending' = Await("produce", c, transportId)
    /\ last' = Step("produce", transportId, NoAck)
    /\ UNCHANGED <<conn, storeVars, engineVars>>
    /\ UNCHANGED procVars
    /\ UNCHANGED acks

\* socket.on('produce'), lines 187-194: look the id up; throw into the catch
\* of lines 209-212 when it is missing, else call transport.produce and
\* suspend.
ProduceRequest(c, transportId) ==
    /\ Running
    /\ conn[c] = "open"
    /\ Receive
    /\ IF ~MapHas(transports, transportId)
       THEN /\ last' = Step("produce", transportId, "error")
            /\ Callback
            /\ UNCHANGED pending
       ELSE /\ CanAwait
            /\ UNCHANGED acks
            /\ pending' = Await("produce", c, transportId)
            /\ last' = Step("produce", transportId, NoAck)
    /\ UNCHANGED <<conn, storeVars, engineVars>>
    /\ UNCHANGED procVars

\* Mutant: the acknowledgement carries the id of the first producer in the
\* map (a variable shared by the overlapping handlers).
ProduceResolve_SharedId(r) ==
    /\ Running
    /\ worker = "alive"
    /\ r.op = "produce"
    /\ nextP <= MaxProducers
    /\ pending' = Resume(r)
    /\ nextP' = nextP + 1
    /\ pTransportId' = [pTransportId EXCEPT ![nextP] = r.tid]
    /\ pOwner' = [pOwner EXCEPT ![nextP] = r.conn]
    /\ producers' = MapSet(producers, nextP)
    /\ last' = StepId("produce.then", r.tid, "id", producers'[1])
    /\ UNCHANGED <<conn, transports, tClosed, pClosed, tCloses, pCloses,
                   nextT, tOwner, tConnected>>
    /\ UNCHANGED <<nReq, procVars>>
    /\ Callback

\* transport.produce resolves: lines 194-208 tag the producer with the
\* transportId of the request, store it and acknowledge its id.  The map of
\* transports is not read again.
ProduceResolve(r) ==
    /\ Running
    /\ worker = "alive"
    /\ r.op = "produce"
    /\ nextP <= MaxProducers
    /\ pending' = Resume(r)
    /\ nextP' = nextP + 1
    /\ pTransportId' = [pTransportId EXCEPT ![nextP] = r.tid]
    /\ pOwner' = [pOwner EXCEPT ![nextP] = r.conn]
    /\ producers' = MapSet(producers, nextP)
    /\ last' = StepId("produce.then", r.tid, "id", nextP)
    /\ UNCHANGED <<conn, transports, tClosed, pClosed, tCloses, pCloses,
                   nextT, tOwner, tConnected>>
    /\ UNCHANGED <<nReq, procVars>>
    /\ Callback

\* Mutant: the catch block acknowledges and then acknowledges again.
ProduceReject_AckTwice(r) ==
    /\ Running
    /\ r.op = "produce"
    /\ pending' = Resume(r)
    /\ last' = Step("produce.catch", r.tid, "error")
    /\ UNCHANGED <<conn, storeVars, engineVars>>
    /\ UNCHANGED <<nReq, procVars>>
    /\ acks' = acks + 2

\* transport.produce rejects: lines 209-212.
ProduceReject(r) ==
    /\ Running
    /\ r.op = "produce"
    /\ pending' = Resume(r)
    /\ last' = Step("produce.catch", r.tid, "error")
    /\ UNCHANGED <<conn, storeVars, engineVars>>
    /\ UNCHANGED <<nReq, procVars>>
    /\ Callback

\* transport.on('dtlsstatechange'), lines 108-112: the engine reports a DTLS
\* state of an open transport; 'closed' closes the transport.
DtlsStateChange(t, dtlsState) ==
    /\ Running
    /\ worker = "alive"
    /\ t < nextT
    /\ ~tClosed[t]
    /\ IF dtlsState = "closed"
       THEN SetStore(TransportClose(Store, t))
       ELSE UNCHANGED storeVars
    /\ last' = Step("dtlsstatechange." \o dtlsState, t, NoAck)
    /\ UNCHANGED <<conn, engineVars, pending>>
    /\ UNCHANGED <<nReq, procVars>>
    /\ UNCHANGED acks

\* A client names a transportId it was sent, or one that never existed.
Issued == {id \in RequestIds : id < nextT}

Next ==
    \/ CreateWorkerResolve
    \/ CreateWorkerReject
    \/ CreateRouterResolve
    \/ CreateRouterReject
    \/ WorkerDied
    \/ Exit
    \/ \E c \in Conns : Connection(c)
    \/ \E c \in Conns : Disconnect(c)
    \/ \E c \in Conns : GetRouterRtpCapabilities(c)
    \/ \E c \in Conns : CreateRequest(c)
    \/ \E r \in Pending : CreateResolve(r)
    \/ \E r \in Pending : CreateReject(r)
    \/ \E c \in Conns, transportId \in Issued : ConnectRequest(c, transportId)
    \/ \E r \in Pending : ConnectResolve(r)
    \/ \E r \in Pending : ConnectReject(r)
    \/ \E c \in Conns, transportId \in Issued : ProduceRequest(c, transportId)
    \/ \E r \in Pending : ProduceResolve(r)
    \/ \E r \in Pending : ProduceReject(r)
    \/ \E t \in TransportIds, dtlsState \in DtlsStates : DtlsStateChange(t, dtlsState)

Spec == Init /\ [][Next]_vars

\* The event loop runs a due timer: no handler blocks it.
FairSpec == Spec /\ WF_vars(Exit)

TypeOK ==
    /\ conn \in [Conns -> {"new", "open", "closed"}]
    /\ Keys(transports) \subseteq 1..(nextT - 1)
    /\ Keys(producers) \subseteq 1..(nextP - 1)
    /\ BagCardinality(pending) <= MaxPending

\* A second specification in which a close call of the engine may raise.
\* The handler of lines 138-152 has no try/catch, so the exception leaves it
\* at the raising call.
DisconnectCloseRaises(c) ==
    /\ Running
    /\ conn[c] = "open"
    /\ \E throwsT \in SUBSET Keys(transports), throwsP \in SUBSET Keys(producers) :
          /\ Cardinality(throwsT) + Cardinality(throwsP) = 1
          /\ SetStore(RunDisconnect(Store, throwsT, throwsP))
    /\ conn' = [conn EXCEPT ![c] = "closed"]
    /\ last' = Step("disconnect", 0, NoAck)
    /\ UNCHANGED <<engineVars, pending>>
    /\ UNCHANGED <<nReq, procVars>>
    /\ UNCHANGED acks

NextThrow ==
    \/ Next
    \/ \E c \in Conns : DisconnectCloseRaises(c)

SpecThrow == Init /\ [][NextThrow]_vars

\* ------------------------------------------------------------------ claims
Created(t)         == t \in 1..(nextT - 1)
CreatedProducer(p) == p \in 1..(nextP - 1)
Disconnects(c)     == conn[c] = "open" /\ conn'[c] = "closed"

\* C1: a disconnect of socket A leaves open and in the maps every transport
\* created by another, still connected socket B, and every producer B made
\* on such a transport.
C1_DisconnectLeavesOtherSessions ==
    [][\A a \in Conns : Disconnects(a) =>
          /\ \A t \in Keys(transports) :
                (tOwner[t] # a /\ conn[tOwner[t]] = "open")
                    => (MapHas(transports', t) /\ ~tClosed'[t])
          /\ \A p \in Keys(producers) :
                (/\ pOwner[p] # a
                 /\ conn[pOwner[p]] = "open"
                 /\ MapHas(transports, pTransportId[p])
                 /\ tOwner[pTransportId[p]] = pOwner[p])
                    => (MapHas(producers', p) /\ ~pClosed'[p])]_vars

\* C2: the transports map never holds a transport whose creating socket has
\* disconnected (in particular not one whose creation resolved after the
\* disconnect).
C2_NoTransportOfClosedSocket ==
    \A t \in Keys(transports) : conn[tOwner[t]] # "closed"

\* C3: a produce request naming an id that is not a key of `transports` is
\* acknowledged with an error, starts no engine call and changes neither map.
C3_ProduceUnknownTransport ==
    [][(last'.op = "produce" /\ ~MapHas(transports, last'.tid)) =>
          /\ last'.ack = "error"
          /\ pending' = pending
          /\ UNCHANGED <<transports, producers, nextP, pTransportId>>]_vars

C3_Witness ==
    /\ last = Step("produce", UnknownId, "error")
    /\ transports # <<>>
    /\ producers # <<>>

\* C4: a connectTransport request naming an id that is not a key of
\* `transports` is acknowledged with an error, never with success, starts no
\* engine call and changes neither map.
C4_ConnectUnknownTransport ==
    [][(last'.op = "connectTransport" /\ ~MapHas(transports, last'.tid)) =>
          /\ last'.ack = "error"
          /\ pending' = pending
          /\ UNCHANGED <<transports, producers, tConnected>>]_vars

C4_Witness ==
    /\ last.op = "connectTransport"
    /\ last.ack = "error"
    /\ Created(last.tid)
    /\ tClosed[last.tid]
    /\ transports # <<>>

\* C5: when a socket disconnects with none of its requests in flight, every
\* transport and producer it created is afterwards closed and in no map.
C5_DisconnectReleasesOwn ==
    [][\A c \in Conns :
          (Disconnects(c) /\ \A r \in Pending : r.conn # c) =>
             /\ \A t \in TransportIds : (Created(t) /\ tOwner[t] = c)
                   => (tClosed'[t] /\ ~MapHas(transports', t))
             /\ \A p \in ProducerIds : (CreatedProducer(p) /\ pOwner[p] = c)
                   => (pClosed'[p] /\ ~MapHas(producers', p))]_vars

\* C6 (I2): every producer in `producers` has a transportId that is a key of
\* `transports`.
C6_ProducerTransportLive ==
    \A p \in Keys(producers) : MapHas(transports, pTransportId[p])

\* C7: connectTransport and produce reach the engine, and register a
\* producer, only for a transport created by the requesting socket.
C7_OnlyOwnTransport ==
    /\ \A r \in Pending :
          r.op \in {"connect", "produce"} => tOwner[r.tid] = r.conn
    /\ \A p \in ProducerIds :
          CreatedProducer(p) => tOwner[pTransportId[p]] = pOwner[p]

\* C8: produce reaches the engine, and registers a producer, only on a
\* transport on which a connectTransport has succeeded.
C8_ProduceOnlyWhenConnected ==
    /\ \A r \in Pending : r.op = "produce" => tConnected[r.tid]
    /\ \A p \in ProducerIds : CreatedProducer(p) => tConnected[pTransportId[p]]

\* C9: a disconnect removes from the maps every transport it walks and every
\* producer of such a transport, also when a close call raises.
C9_TeardownTotal ==
    [][\A c \in Conns : Disconnects(c) =>
          /\ \A t \in Keys(transports) : ~MapHas(transports', t)
          /\ \A p \in Keys(producers) :
                MapHas(transports, pTransportId[p]) => ~MapHas(producers', p)]_vars

InFlight == BagCardinality(pending)
Responses ==
    [getRouterRtpCapabilities |-> {"rtpCapabilities"},
     createWebRtcTransport |-> {"error"},
     connectTransport |-> {"error"},
     produce |-> {"error"}]
ResumeResponses ==
    {<<"createWebRtcTransport.then", "params">>,
     <<"createWebRtcTransport.catch", "error">>,
     <<"connectTransport.then", "success">>,
     <<"connectTransport.catch", "error">>,
     <<"produce.then", "id">>,
     <<"produce.catch", "error">>}

C11_SingleAck ==
    [][~exited' =>
         /\ acks' \in {acks, acks + 1}
         /\ (nReq' = nReq + 1) =>
               \/ /\ acks' = acks + 1
                  /\ InFlight' = InFlight
                  /\ last'.ack \in Responses[last'.op]
               \/ /\ acks' = acks
                  /\ InFlight' = InFlight + 1
                  /\ last'.ack = NoAck
         /\ (InFlight' = InFlight - 1) =>
               /\ acks' = acks + 1
               /\ <<last'.op, last'.ack>> \in ResumeResponses
         /\ (nReq' = nReq /\ InFlight' = InFlight) => acks' = acks]_vars

C11_Witness ==
    /\ nReq = 3
    /\ acks = 3
    /\ pending = EmptyBag
    /\ last = Step("produce.catch", 1, "error")
    /\ Len(transports) = 1

\* C12: an engine rejection is caught in the request that hit it.  The
\* resuming step acknowledges an error, changes neither map, closes no
\* socket and leaves the process running; right after it, every open socket
\* can still have its requests handled.
Rejections ==
    {"createWebRtcTransport.catch", "connectTransport.catch", "produce.catch"}

Accepts(c) ==
    /\ ENABLED GetRouterRtpCapabilities(c)
    /\ ENABLED ConnectRequest(c, UnknownId)
    /\ ENABLED ProduceRequest(c, UnknownId)
    /\ CanAwait => ENABLED CreateRequest(c)
    /\ \A t \in Keys(transports) :
          CanAwait => (ENABLED ConnectRequest(c, t) /\ ENABLED ProduceRequest(c, t))

C12_RejectionCaught ==
    /\ [][(last'.op \in Rejections /\ InFlight' = InFlight - 1) =>
             /\ last'.ack = "error"
             /\ acks' = acks + 1
             /\ UNCHANGED <<transports, producers, conn, exited>>
             /\ UNCHANGED <<nextT, nextP>>]_vars
    /\ [](last.op \in Rejections =>
             /\ Running
             /\ last.ack = "error"
             /\ \A c \in Conns :
                   (conn[c] = "open" /\ CanReceive) => Accepts(c))

C12_Witness ==
    /\ last = Step("connectTransport.catch", 1, "error")
    /\ MapHas(transports, 1)
    /\ conn[tOwner[1]] = "open"
    /\ CanReceive

\* C13: when the engine reports dtlsState 'closed' for a transport, with no
\* request or disconnect involved, that transport is closed and leaves the
\* transports map, and every producer created on it is closed and leaves the
\* producers map; other transports and their producers are untouched.
C13_DtlsClosedCascade ==
    [][(last'.op = "dtlsstatechange.closed" /\ ~tClosed[last'.tid]) =>
          LET t == last'.tid
          IN /\ tClosed'[t]
             /\ ~MapHas(transports', t)
             /\ \A p \in ProducerIds :
                   (CreatedProducer(p) /\ pTransportId[p] = t)
                       => (pClosed'[p] /\ ~MapHas(producers', p))
             /\ \A u \in TransportIds \ {t} :
                   /\ tClosed'[u] = tClosed[u]
                   /\ MapHas(transports', u) = MapHas(transports, u)
             /\ \A p \in ProducerIds :
                   pTransportId[p] # t =>
                       /\ pClosed'[p] = pClosed[p]
                       /\ MapHas(producers', p) = MapHas(producers, p)
             /\ UNCHANGED <<conn, nReq, acks, pending>>]_vars

C13_Witness ==
    /\ last.op = "dtlsstatechange.closed"
    /\ \E p \in ProducerIds :
          /\ CreatedProducer(p)
          /\ pTransportId[p] = last.tid
          /\ pClosed[p]
    /\ transports # <<>>
    /\ \A c \in Conns : conn[c] # "closed"

\* C14: overlapping createWebRtcTransport and produce calls may complete in
\* any order.  The step that resumes one of them adds exactly one new key to
\* its map, keeps every key that was there, and acknowledges that new key;
\* the new resource belongs to the call that was resumed.  As long as nothing
\* has been closed, every resource created so far is in its map, once.
Resumed == CHOOSE r \in Pending : pending' = Resume(r)

C14_OutOfOrderCompletion ==
    /\ [][/\ (last'.op = "createWebRtcTransport.then" /\ nextT' = nextT + 1) =>
               /\ ~MapHas(transports, last'.id)
               /\ transports' = Append(transports, last'.id)
               /\ last'.ack = "params"
               /\ Resumed.op = "create"
               /\ tOwner'[last'.id] = Resumed.conn
               /\ UNCHANGED producers
          /\ (last'.op = "produce.then" /\ nextP' = nextP + 1) =>
               /\ ~MapHas(producers, last'.id)
               /\ producers' = Append(producers, last'.id)
               /\ last'.ack = "id"
               /\ Resumed.op = "produce"
               /\ pTransportId'[last'.id] = Resumed.tid
               /\ pOwner'[last'.id] = Resumed.conn
               /\ UNCHANGED transports]_vars
    /\ []((/\ \A t \in TransportIds : ~tClosed[t]
           /\ \A p \in ProducerIds : ~pClosed[p]) =>
             /\ Keys(transports) = 1..(nextT - 1)
             /\ Len(transports) = nextT - 1
             /\ Keys(producers) = 1..(nextP - 1)
             /\ Len(producers) = nextP - 1)

\* A produce completed, and its producer is stored under the acknowledged
\* id, while a createWebRtcTransport call was still in flight.
C14_Witness ==
    /\ last.op = "produce.then"
    /\ MapHas(producers, last.id)
    /\ \E r \in Pending : r.op = "create"
    /\ Len(transports) >= 1

\* C15: an engine call that does not return stalls nothing else.  In every
\* state with a call h in flight, each open socket can disconnect and can
\* have a new request accepted, and every other call in flight can complete.
Completes(r) ==
    /\ r.op = "create" =>
          /\ ENABLED CreateReject(r)
          /\ (worker = "alive" /\ nextT <= MaxTransports) => ENABLED CreateResolve(r)
    /\ r.op = "connect" =>
          /\ ENABLED ConnectReject(r)
          /\ worker = "alive" => ENABLED ConnectResolve(r)
    /\ r.op = "produce" =>
          /\ ENABLED ProduceReject(r)
          /\ (worker = "alive" /\ nextP <= MaxProducers) => ENABLED ProduceResolve(r)

C15_HungCallStallsOnlyItself ==
    (Running /\ Pending # {}) =>
       /\ \A c \in Conns : conn[c] = "open" =>
             /\ ENABLED Disconnect(c)
             /\ CanReceive => Accepts(c)
       /\ \A h \in Pending :
             \A r \in Pending : (r # h \/ pending[r] > 1) => Completes(r)

\* A createWebRtcTransport of a socket completed while another call of the
\* same socket was still in flight.
C15_Witness ==
    /\ last.op = "createWebRtcTransport.then"
    /\ last.ack = "params"
    /\ \E h \in Pending : h.conn = tOwner[last.id]

\* C16: once the worker has died the exit timer is armed, nothing disarms
\* it, and the process exits, whatever requests, acknowledgements and
\* disconnects happen in between.
C16_WorkerDeathIsFatal ==
    /\ [](worker = "died" => exitTimer)
    /\ [][exitTimer => exitTimer']_vars
    /\ (worker = "died") ~> exited

\* The process has exited after the worker died with a request in flight
\* and after a socket disconnected.
C16_Witness ==
    /\ exited
    /\ worker = "died"
    /\ nReq >= 1
    /\ \E c \in Conns : conn[c] = "closed"

\* C17: a resource is in its map when its id is acknowledged.  The step that
\* acknowledges params or a producer id leaves that id a key of the
\* transports or producers map; and a created (hence acknowledged) resource
\* is missing from its map only once it has been closed.
C17_RegisteredBeforeAck ==
    /\ [][/\ (last'.ack = "params" /\ acks' = acks + 1)
               => MapHas(transports', last'.id)
          /\ (last'.ack = "id" /\ acks' = acks + 1)
               => MapHas(producers', last'.id)]_vars
    /\ [](/\ \A t \in TransportIds :
                (Created(t) /\ ~MapHas(transports, t)) => tClosed[t]
          /\ \A p \in ProducerIds :
                (CreatedProducer(p) /\ ~MapHas(producers, p)) => pClosed[p])

C17_Witness ==
    /\ last.op = "createWebRtcTransport.then"
    /\ last.ack = "params"
    /\ MapHas(transports, last.id)
    /\ \E t \in TransportIds : Created(t) /\ tClosed[t] /\ ~MapHas(transports, t)

\* C18 as stated: no transport in the transports map is closed and no
\* producer in the producers map is closed, in every state.
C18_MapsHoldOpenResources ==
    /\ \A t \in Keys(transports) : ~tClosed[t]
    /\ \A p \in Keys(producers) : ~pClosed[p]

\* C18 as amended: the same, for the transports map as long as the worker
\* has not died; for the producers map in every state.
C18_MapsHoldOpenWhileWorkerAlive ==
    /\ worker # "died" => \A t \in Keys(transports) : ~tClosed[t]
    /\ \A p \in Keys(producers) : ~pClosed[p]

\* Resources have been closed by a DTLS notification and by the cascade to
\* a producer, and a transport is still in the map.
C18_Witness ==
    /\ worker = "alive"
    /\ transports # <<>>
    /\ \E t \in TransportIds : tClosed[t]
    /\ \E p \in ProducerIds : pClosed[p]

\* C19: sockets connect, and request handlers run, only once the server
\* listens; the server listens only once the worker and the router exist;
\* getRouterRtpCapabilities always finds the router; and once worker or
\* router creation has failed the server never listens.
C19_ListenAfterRouter ==
    /\ [](/\ listening => (router /\ worker # "none")
          /\ (nReq > 0 \/ \E c \in Conns : conn[c] # "new") => (listening /\ router)
          /\ last.op = "getRouterRtpCapabilities" => last.ack = "rtpCapabilities"
          /\ start = "failed" => ~listening)
    /\ [][start = "failed" => (start' = "failed" /\ ~listening')]_vars

C19_Witness ==
    /\ listening
    /\ last.op = "getRouterRtpCapabilities"
    /\ last.ack = "rtpCapabilities"

====
